---- MODULE Spec2Model ----
(***************************************************************************)
(* Order validation and normalisation library                              *)
(* (Pytest Framework/src/elt_functions.py, data_transformations.py).       *)
(*                                                                         *)
(* Every function of the library is a pure function of its arguments.      *)
(* A behaviour is one call: the initial state holds the function called    *)
(* (call) and its arguments (args) with pc = "ready"; the call's action    *)
(* runs the function body and leaves its return value in result with       *)
(* pc = "done".                                                            *)
(*                                                                         *)
(* Python values.  An argument that may be absent is a tagged value:       *)
(*   None          [tag |-> "None"]                                        *)
(*   a str         [tag |-> "str", val |-> <<c1, ..., cn>>]                *)
(*   a number      [tag |-> "num", val |-> n]                              *)
(*   an int, float [tag |-> "int", val |-> n], [tag |-> "float", ...]      *)
(*                 where the type of the number matters (data quality)     *)
(* A dict is a function from its keys; a dict whose order matters          *)
(* (field_types) is the sequence of its (key, value) items; a list is a    *)
(* sequence.                                                               *)
(* A str is the sequence of its code points; a code point is written as    *)
(* itself ("a", " ") or by its name ("U+0130").  Prices and amounts are     *)
(* decimals counted in thousandths of the currency unit (Mills to the      *)
(* unit), exchange rates in tenths, so that they compare and multiply as   *)
(* integers and rounding to 2 decimals is rounding to a multiple of 10.    *)
(* A call that raises ends with pc = "raised" and the exception in result. *)
(* A message built by an f-string is the sequence of its literal pieces    *)
(* and interpolated values; a literal message is a one-piece sequence.     *)
(*                                                                         *)
(* The ETL examples (integration-testing-examples) are step machines over  *)
(* the variable etl, each with its own specification: SpecLoad,            *)
(* SpecImproved and SpecPipeline.  SpecCalls makes several library calls   *)
(* one after the other.                                                    *)
(***************************************************************************)
EXTENDS Integers, Sequences, FiniteSets, TLC

VARIABLES pc, call, args, result, history, etl

vars == <<pc, call, args, result, history, etl>>

\* the variables of a call of a library function
callvars == <<pc, call, args, result, history>>

---------------------------------------------------------------------------
(* Bounds of the explored inputs *)

\* longest text handed to a cleaner or to check_email
MaxLen == 5
\* numbers (quantities, ages, prices, rule parameters) range over -MaxNum..MaxNum
MaxNum == 3
\* longest order-id head over the letters of the prefix
MaxHead == 4
\* longest order-id tail following "ORD-"
MaxTail == 8
\* longest list of required fields
MaxFields == 3
\* longest sequence of calls made one after the other
MaxCalls == 3
\* longest list of products (or of rows of a supplier feed) handed to an ETL
MaxProducts == 2
\* most customers, and most transactions, asked of the pipeline
MaxRows == 2
\* amounts lie within MaxMills thousandths of one of the AmountBases
MaxMills == 55
\* exchange rates range over -MaxRate..MaxRate tenths
MaxRate == 15

---------------------------------------------------------------------------
(* Python values *)

None == [tag |-> "None"]
Str(s) == [tag |-> "str", val |-> s]
Num(n) == [tag |-> "num", val |-> n]
Int_(n) == [tag |-> "int", val |-> n]
Float(x) == [tag |-> "float", val |-> x]
Bool(b) == [tag |-> "bool", val |-> b]

SeqsUpTo(S, n) == UNION {[1..k -> S] : k \in 0..n}

\* Python truthiness: None, "" and 0 are falsy
Truthy(v) ==
    CASE v.tag = "None" -> FALSE
      [] v.tag = "str"  -> v.val # <<>>
      [] v.tag = "num"  -> v.val # 0
      [] v.tag = "int"  -> v.val # 0
      [] v.tag = "float" -> v.val # 0

\* type(v).__name__
TypeName(v) == IF v.tag = "None" THEN "NoneType" ELSE v.tag

\* isinstance(v, expected_type) for the types str, int and float
IsInstance(v, expected_type) == v.tag = expected_type

---------------------------------------------------------------------------
(* Code points and the str methods the library uses *)

\* str.isspace of one code point
IsSpace(c) == c = " "

\* cased code points (upper-, lower- or title-case letters); the combining
\* dot above U+0307 is a mark, not a cased letter
IsCased(c) == c \in {"a", "A", "i", "I", "U+0130"}

\* full lower-case mapping of one code point; U+0130 (capital I with dot
\* above) lower-cases to the two code points i, U+0307
LowerOf(c) ==
    CASE c = "A" -> <<"a">>
      [] c = "I" -> <<"i">>
      [] c = "U+0130" -> <<"i", "U+0307">>
      [] OTHER -> <<c>>

\* full title-case mapping of one code point; U+0130 is its own title case
TitleOf(c) ==
    CASE c = "a" -> <<"A">>
      [] c = "i" -> <<"I">>
      [] OTHER -> <<c>>

RECURSIVE Flatten(_)
Flatten(ss) == IF ss = <<>> THEN <<>> ELSE Head(ss) \o Flatten(Tail(ss))

RECURSIVE lstrip(_)
lstrip(s) == IF s # <<>> /\ IsSpace(Head(s)) THEN lstrip(Tail(s)) ELSE s

RECURSIVE rstrip(_)
rstrip(s) ==
    IF s # <<>> /\ IsSpace(s[Len(s)]) THEN rstrip(SubSeq(s, 1, Len(s) - 1)) ELSE s

\* str.strip(): leading and trailing whitespace removed
strip(s) == rstrip(lstrip(s))

\* str.lower(): every code point replaced by its lower-case mapping
lower(s) == Flatten([i \in 1..Len(s) |-> LowerOf(s[i])])

\* str.capitalize(): first code point title-cased, the rest lower-cased
capitalize(s) ==
    Flatten([i \in 1..Len(s) |-> IF i = 1 THEN TitleOf(s[i]) ELSE LowerOf(s[i])])

\* str.title(): a code point that follows a cased code point is lower-cased,
\* any other is title-cased
title(s) ==
    Flatten([i \in 1..Len(s) |->
        IF i > 1 /\ IsCased(s[i - 1]) THEN LowerOf(s[i]) ELSE TitleOf(s[i])])

\* str.startswith(prefix)
startswith(s, prefix) ==
    Len(s) >= Len(prefix) /\ SubSeq(s, 1, Len(prefix)) = prefix

\* c in s
Contains(s, c) == \E i \in 1..Len(s) : s[i] = c

---------------------------------------------------------------------------
(* Field validators: elt_functions.py.  Each returns (is_valid, message) *)

Valid == <<"Valid">>

\* variant: the prefix test leaves out the hyphen
check_order_id_no_hyphen(order_id) ==
    IF ~Truthy(order_id) THEN <<FALSE, <<"Order ID is empty">>>>
    ELSE IF ~startswith(order_id.val, <<"O", "R", "D">>)
         THEN <<FALSE, <<"Order ID must start with ORD-">>>>
    ELSE <<TRUE, Valid>>

check_order_id(order_id) ==
    IF ~Truthy(order_id) THEN <<FALSE, <<"Order ID is empty">>>>
    ELSE IF ~startswith(order_id.val, <<"O", "R", "D", "-">>)
         THEN <<FALSE, <<"Order ID must start with ORD-">>>>
    ELSE <<TRUE, Valid>>

\* variant: the format test rejects only an email lacking both characters
check_email_and(email) ==
    IF ~Truthy(email) THEN <<FALSE, <<"Email is empty">>>>
    ELSE IF ~Contains(email.val, "@") /\ ~Contains(email.val, ".")
         THEN <<FALSE, <<"Email must have @ and .">>>>
    ELSE <<TRUE, Valid>>

\* variant: the format branch reports success
check_email_true(email) ==
    IF ~Truthy(email) THEN <<FALSE, <<"Email is empty">>>>
    ELSE IF ~Contains(email.val, "@") \/ ~Contains(email.val, ".")
         THEN <<TRUE, <<"Email must have @ and .">>>>
    ELSE <<TRUE, Valid>>

check_email(email) ==
    IF ~Truthy(email) THEN <<FALSE, <<"Email is empty">>>>
    ELSE IF ~Contains(email.val, "@") \/ ~Contains(email.val, ".")
         THEN <<FALSE, <<"Email must have @ and .">>>>
    ELSE <<TRUE, Valid>>

\* variant: the upper test excludes max_allowed itself
check_quantity_excl(quantity, max_allowed) ==
    IF quantity.tag = "None" THEN <<FALSE, <<"Quantity is missing">>>>
    ELSE IF quantity.val <= 0 THEN <<FALSE, <<"Quantity must be positive">>>>
    ELSE IF quantity.val >= max_allowed
         THEN <<FALSE, <<"Quantity too high (max: ", max_allowed, ")">>>>
    ELSE <<TRUE, Valid>>

check_quantity(quantity, max_allowed) ==
    IF quantity.tag = "None" THEN <<FALSE, <<"Quantity is missing">>>>
    ELSE IF quantity.val <= 0 THEN <<FALSE, <<"Quantity must be positive">>>>
    ELSE IF quantity.val > max_allowed
         THEN <<FALSE, <<"Quantity too high (max: ", max_allowed, ")">>>>
    ELSE <<TRUE, Valid>>

\* variant: the lower test excludes min_price itself
check_price_excl(price, min_price, max_price) ==
    IF price.tag = "None" THEN <<FALSE, <<"Price is missing">>>>
    ELSE IF price.val <= min_price
         THEN <<FALSE, <<"Price too low (min: $", min_price, ")">>>>
    ELSE IF price.val > max_price
         THEN <<FALSE, <<"Price too high (max: $", max_price, ")">>>>
    ELSE <<TRUE, Valid>>

check_price(price, min_price, max_price) ==
    IF price.tag = "None" THEN <<FALSE, <<"Price is missing">>>>
    ELSE IF price.val < min_price
         THEN <<FALSE, <<"Price too low (min: $", min_price, ")">>>>
    ELSE IF price.val > max_price
         THEN <<FALSE, <<"Price too high (max: $", max_price, ")">>>>
    ELSE <<TRUE, Valid>>

\* variant: the upper test comes before the lower test
check_age_upper_first(age, min_age, max_age) ==
    IF age.tag = "None" THEN <<FALSE, <<"Age is missing">>>>
    ELSE IF age.val > max_age
         THEN <<FALSE, <<"Age unrealistic (max: ", max_age, ")">>>>
    ELSE IF age.val < min_age
         THEN <<FALSE, <<"Customer too young (min: ", min_age, ")">>>>
    ELSE <<TRUE, Valid>>

\* variant: the upper test excludes max_age itself
check_age_excl(age, min_age, max_age) ==
    IF age.tag = "None" THEN <<FALSE, <<"Age is missing">>>>
    ELSE IF age.val < min_age
         THEN <<FALSE, <<"Customer too young (min: ", min_age, ")">>>>
    ELSE IF age.val >= max_age
         THEN <<FALSE, <<"Age unrealistic (max: ", max_age, ")">>>>
    ELSE <<TRUE, Valid>>

check_age(age, min_age, max_age) ==
    IF age.tag = "None" THEN <<FALSE, <<"Age is missing">>>>
    ELSE IF age.val < min_age
         THEN <<FALSE, <<"Customer too young (min: ", min_age, ")">>>>
    ELSE IF age.val > max_age
         THEN <<FALSE, <<"Age unrealistic (max: ", max_age, ")">>>>
    ELSE <<TRUE, Valid>>

---------------------------------------------------------------------------
(* Field cleaners: elt_functions.py, data_transformations.py *)

\* variant: str.capitalize() in place of str.title()
clean_name_capitalize(name) ==
    IF ~Truthy(name) THEN <<>> ELSE capitalize(strip(name.val))

clean_name(name) ==
    IF ~Truthy(name) THEN <<>> ELSE title(strip(name.val))

clean_email(email) ==
    IF ~Truthy(email) THEN <<>> ELSE lower(strip(email.val))

clean_product_name(product_name) ==
    IF ~Truthy(product_name) THEN <<>> ELSE title(strip(product_name.val))

standardize_name(name) ==
    IF ~Truthy(name) THEN <<>> ELSE title(strip(name.val))

---------------------------------------------------------------------------
(* Derived computations: elt_functions.py, data_transformations.py *)

\* thousandths in one currency unit
Mills == 1000
\* tenths in one (exchange rates 1.5, 0.8, -1 are 15, 8, -10)
Tenths == 10

\* outcome of a call: a returned value or a raised exception
Returned(v) == [kind |-> "return", value |-> v]
Raised(e, m) == [kind |-> "raise", exc |-> e, msg |-> m]

\* variant: the value is cut to 2 decimals (rounded down)
round2_floor(n, d) == {10 * (n \div (10 * d))}

\* round(x, 2) for x = n/d thousandths: the multiple of 10 thousandths
\* nearest to x.  When x lies exactly halfway between two of them in decimal,
\* the float that stands for x lies on either side of the halfway point
\* depending on its binary representation, and round returns one or the
\* other neighbour: both are possible results
round2(n, d) ==
    LET cent == 10 * d
        lo   == n \div cent
        rem  == n - lo * cent
    IN  IF 2 * rem < cent THEN {10 * lo}
        ELSE IF 2 * rem > cent THEN {10 * (lo + 1)}
        ELSE {10 * lo, 10 * (lo + 1)}

\* round(a * b, 2) for a count a and an amount b in thousandths; None * x
\* raises TypeError
rounded_product(a, b) ==
    IF a.tag = "None" \/ b.tag = "None"
    THEN {Raised("TypeError", <<"unsupported operand type(s) for *">>)}
    ELSE {Returned(v) : v \in round2(a.val * b.val, 1)}

\* variant: the guard returns 0.0 only when both are absent
calculate_total_and(quantity, price) ==
    IF quantity.tag = "None" /\ price.tag = "None" THEN {Returned(0)}
    ELSE rounded_product(quantity, price)

\* variant: the product is cut, not rounded, to 2 decimals
calculate_total_floor(quantity, price) ==
    IF quantity.tag = "None" \/ price.tag = "None" THEN {Returned(0)}
    ELSE {Returned(v) : v \in round2_floor(quantity.val * price.val, 1)}

\* the outcomes of calculate_total(quantity, price)
calculate_total(quantity, price) ==
    IF quantity.tag = "None" \/ price.tag = "None" THEN {Returned(0)}
    ELSE rounded_product(quantity, price)

\* the tax rate 0.10, in hundredths
TaxRate == 10

\* variant: a rate of 0.01
calculate_tax_one_percent(total_amount) == round2(total_amount, 100)

\* the values calculate_tax(total_amount) can return
calculate_tax(total_amount) == round2(total_amount * TaxRate, 100)

\* variant: 1000 itself is not HIGH
get_order_category_excl(total_amount) ==
    IF total_amount > 1000 * Mills THEN "HIGH"
    ELSE IF total_amount >= 500 * Mills THEN "MEDIUM"
    ELSE IF total_amount > 0 THEN "LOW"
    ELSE "INVALID"

\* variant: the labels of the two upper categories are exchanged
get_order_category_swapped(total_amount) ==
    IF total_amount >= 1000 * Mills THEN "MEDIUM"
    ELSE IF total_amount >= 500 * Mills THEN "HIGH"
    ELSE IF total_amount > 0 THEN "LOW"
    ELSE "INVALID"

get_order_category(total_amount) ==
    IF total_amount >= 1000 * Mills THEN "HIGH"
    ELSE IF total_amount >= 500 * Mills THEN "MEDIUM"
    ELSE IF total_amount > 0 THEN "LOW"
    ELSE "INVALID"

\* get_order_category(calculate_total(quantity, price)), as the order
\* categorisation test composes them
order_category(quantity, price) ==
    {IF o.kind = "return" THEN Returned(get_order_category(o.value)) ELSE o :
        o \in calculate_total(quantity, price)}

\* variant: only a rate below 0 is refused
convert_currency_zero_ok(amount, rate) ==
    IF rate < 0
    THEN {Raised("ValueError", <<"Exchange rate must be positive">>)}
    ELSE {Returned(v) : v \in round2(amount * rate, Tenths)}

\* variant: only a rate of 0 is refused
convert_currency_only_zero(amount, rate) ==
    IF rate = 0
    THEN {Raised("ValueError", <<"Exchange rate must be positive">>)}
    ELSE {Returned(v) : v \in round2(amount * rate, Tenths)}

\* the outcomes of convert_currency(amount, rate)
convert_currency(amount, rate) ==
    IF rate <= 0
    THEN {Raised("ValueError", <<"Exchange rate must be positive">>)}
    ELSE {Returned(v) : v \in round2(amount * rate, Tenths)}

---------------------------------------------------------------------------
(* Generic data-quality checks: data_quality.py.  Each is the run of its    *)
(* loop over a frame holding the argument objects and the local list; the  *)
(* call's outcome is the returned pair and the argument objects as the     *)
(* call leaves them.                                                       *)

\* variant: only an absent field or a None value counts as missing
RECURSIVE check_data_completeness_loop_none(_, _)
check_data_completeness_loop_none(frame, i) ==
    IF i > Len(frame.required_fields) THEN frame
    ELSE LET field == frame.required_fields[i]
         IN  check_data_completeness_loop_none(
                 IF field \notin DOMAIN frame.data_dict
                        \/ frame.data_dict[field].tag = "None"
                 THEN [frame EXCEPT !.missing_fields = Append(@, field)]
                 ELSE frame,
                 i + 1)

\* for field in required_fields: ... missing_fields.append(field)
RECURSIVE check_data_completeness_loop(_, _)
check_data_completeness_loop(frame, i) ==
    IF i > Len(frame.required_fields) THEN frame
    ELSE LET field == frame.required_fields[i]
         IN  check_data_completeness_loop(
                 IF field \notin DOMAIN frame.data_dict
                        \/ ~Truthy(frame.data_dict[field])
                 THEN [frame EXCEPT !.missing_fields = Append(@, field)]
                 ELSE frame,
                 i + 1)

check_data_completeness_end(frame) ==
    [value |-> <<Len(frame.missing_fields) = 0, frame.missing_fields>>,
     args  |-> <<frame.data_dict, frame.required_fields>>]

\* variant: missing_fields is one list shared by all the calls (a mutable
\* default argument), so a call starts from what the call before it left
check_data_completeness_shared(data_dict, required_fields) ==
    LET IsEarlier(h) == h.call = "check_data_completeness"
        earlier == SelectSeq(history, IsEarlier)
        shared == IF earlier = <<>> THEN <<>>
                  ELSE earlier[Len(earlier)].result[2]
    IN  check_data_completeness_end(check_data_completeness_loop(
            [data_dict |-> data_dict, required_fields |-> required_fields,
             missing_fields |-> shared], 1))

check_data_completeness_none_only(data_dict, required_fields) ==
    check_data_completeness_end(check_data_completeness_loop_none(
        [data_dict |-> data_dict, required_fields |-> required_fields,
         missing_fields |-> <<>>], 1))

check_data_completeness(data_dict, required_fields) ==
    check_data_completeness_end(check_data_completeness_loop(
        [data_dict |-> data_dict, required_fields |-> required_fields,
         missing_fields |-> <<>>], 1))

\* f"{field}: expected {expected_type.__name__}, got {type(value).__name__}"
TypeError_(field, expected_type, value) ==
    <<field, ": expected ", expected_type, ", got ", TypeName(value)>>

\* variant: a field the record lacks is looked up with dict.get and reported
RECURSIVE validate_data_types_loop_get(_, _)
validate_data_types_loop_get(frame, i) ==
    IF i > Len(frame.field_types) THEN frame
    ELSE LET field == frame.field_types[i][1]
             expected_type == frame.field_types[i][2]
             value == IF field \in DOMAIN frame.data_dict
                      THEN frame.data_dict[field] ELSE None
         IN  validate_data_types_loop_get(
                 IF ~IsInstance(value, expected_type)
                 THEN [frame EXCEPT !.type_errors =
                          Append(@, TypeError_(field, expected_type, value))]
                 ELSE frame,
                 i + 1)

\* for field, expected_type in field_types.items(): ... type_errors.append(...)
RECURSIVE validate_data_types_loop(_, _)
validate_data_types_loop(frame, i) ==
    IF i > Len(frame.field_types) THEN frame
    ELSE LET field == frame.field_types[i][1]
             expected_type == frame.field_types[i][2]
         IN  validate_data_types_loop(
                 IF field \in DOMAIN frame.data_dict
                        /\ ~IsInstance(frame.data_dict[field], expected_type)
                 THEN [frame EXCEPT !.type_errors =
                          Append(@, TypeError_(field, expected_type,
                                               frame.data_dict[field]))]
                 ELSE frame,
                 i + 1)

validate_data_types_end(frame) ==
    [value |-> <<Len(frame.type_errors) = 0, frame.type_errors>>,
     args  |-> <<frame.data_dict, frame.field_types>>]

validate_data_types_get(data_dict, field_types) ==
    validate_data_types_end(validate_data_types_loop_get(
        [data_dict |-> data_dict, field_types |-> field_types,
         type_errors |-> <<>>], 1))

validate_data_types(data_dict, field_types) ==
    validate_data_types_end(validate_data_types_loop(
        [data_dict |-> data_dict, field_types |-> field_types,
         type_errors |-> <<>>], 1))

---------------------------------------------------------------------------
(* Utility validators: data_validation_functions.py *)

\* return "@" in email and "." in email
validate_email(email) == Contains(email, "@") /\ Contains(email, ".")

\* return 0 <= age <= 100
validate_age(age) == 0 <= age /\ age <= 100

---------------------------------------------------------------------------
(* Inputs *)

NumRange == -MaxNum..MaxNum
MaybeNum == {None} \cup {Num(n) : n \in NumRange}

\* text of names, products and emails to clean: a space, letters of both
\* cases, a character that is neither, and a letter whose lower case is two
\* code points
TextChars == {" ", "a", "A", "-", "U+0130"}
Texts == {None} \cup {Str(s) : s \in SeqsUpTo(TextChars, MaxLen)}

EmailChars == {"a", "@", ".", " "}
Emails == {None} \cup {Str(s) : s \in SeqsUpTo(EmailChars, MaxLen)}

\* order ids: every string over the prefix's letters up to MaxHead, and the
\* prefix "ORD-" followed by every tail of digits, hyphens and letters
IdHeadChars == {"O", "R", "D", "-"}
IdTailChars == {"2", "-", "x"}
OrderIds ==
    {None}
    \cup {Str(h) : h \in SeqsUpTo(IdHeadChars, MaxHead)}
    \cup {Str(<<"O", "R", "D", "-">> \o t) : t \in SeqsUpTo(IdTailChars, MaxTail)}

\* amounts (prices, totals): within MaxMills thousandths of 0, of the
\* category thresholds and of the fixture's prices and totals
AmountBases ==
    {0, 500 * Mills, 1000 * Mills, 100 * Mills, 50 * Mills,
     999990, -299990, 1999980}
Amounts == {b + d : b \in AmountBases, d \in -MaxMills..MaxMills}
MaybeAmount == {None} \cup {Num(a) : a \in Amounts}
Rates == -MaxRate..MaxRate

\* records: every dict from some of the fields to a value of each kind,
\* falsy and truthy
Fields == {"name", "email", "age"}
FieldValues == {None, Str(<<>>), Str(<<"J">>), Int_(0), Int_(30), Float(5)}
Records == UNION {[S -> FieldValues] : S \in SUBSET Fields}
RequiredFields == SeqsUpTo(Fields, MaxFields)
Types == {"str", "int", "float"}
\* a dict of field types: items with distinct keys, in insertion order
FieldTypes ==
    {ft \in SeqsUpTo(Fields \X Types, Cardinality(Fields)) :
        \A i, j \in 1..Len(ft) : i # j => ft[i][1] # ft[j][1]}

\* ages handed to validate_age: around 0, around the limit of the code and
\* around the limit of its test, and the test's 25
Ages ==
    {b + d : b \in {0, 100, 150}, d \in -MaxNum..MaxNum} \cup {25}
\* addresses handed to validate_email
Addresses == SeqsUpTo(EmailChars, MaxLen)

---------------------------------------------------------------------------
(* One call *)

\* no ETL object is in use
NoEtl == [at |-> "none"]

Ready(f, inputs) ==
    /\ pc = "ready"
    /\ call = f
    /\ args \in inputs
    /\ result = None
    /\ history = <<>>
    /\ etl = NoEtl

Init ==
    \/ Ready("check_order_id", {<<x>> : x \in OrderIds})
    \/ Ready("check_email", {<<x>> : x \in Emails})
    \/ Ready("check_quantity", MaybeNum \X NumRange)
    \/ Ready("check_price", MaybeNum \X NumRange \X NumRange)
    \/ Ready("check_age", MaybeNum \X NumRange \X NumRange)
    \/ Ready("clean_name", {<<x>> : x \in Texts})
    \/ Ready("clean_email", {<<x>> : x \in Texts})
    \/ Ready("clean_product_name", {<<x>> : x \in Texts})
    \/ Ready("standardize_name", {<<x>> : x \in Texts})
    \/ Ready("calculate_total", MaybeNum \X MaybeAmount)
    \/ Ready("calculate_tax", {<<x>> : x \in Amounts})
    \/ Ready("get_order_category", {<<x>> : x \in Amounts})
    \/ Ready("order_category", MaybeNum \X MaybeAmount)
    \/ Ready("convert_currency", Amounts \X Rates)
    \/ Ready("check_data_completeness", Records \X RequiredFields)
    \/ Ready("validate_data_types", Records \X FieldTypes)
    \/ Ready("validate_email", {<<x>> : x \in Addresses})
    \/ Ready("validate_age", {<<x>> : x \in Ages})

\* what a finished call is remembered by: the arguments it was given, the
\* argument objects as it left them, and how it ended
Finished(f, given, left, outcome, value) ==
    [call |-> f, args |-> given, left |-> left, outcome |-> outcome,
     result |-> value]

Return(f, value) ==
    /\ pc = "ready"
    /\ call = f
    /\ pc' = "done"
    /\ result' = value
    /\ history' = Append(history, Finished(f, args, args, "done", value))
    /\ UNCHANGED <<call, args, etl>>

\* a call that is handed mutable objects (a dict, a list) returns and leaves
\* the objects as its body left them
ReturnLeaving(f, outcome) ==
    /\ pc = "ready"
    /\ call = f
    /\ pc' = "done"
    /\ result' = outcome.value
    /\ args' = outcome.args
    /\ history' = Append(history,
                         Finished(f, args, outcome.args, "done", outcome.value))
    /\ UNCHANGED <<call, etl>>

Raise(f, exception) ==
    /\ pc = "ready"
    /\ call = f
    /\ pc' = "raised"
    /\ result' = exception
    /\ history' = Append(history, Finished(f, args, args, "raised", exception))
    /\ UNCHANGED <<call, args, etl>>

Finish(f, outcome) ==
    IF outcome.kind = "return"
    THEN Return(f, outcome.value)
    ELSE Raise(f, [exc |-> outcome.exc, msg |-> outcome.msg])

Call_check_order_id == Return("check_order_id", check_order_id(args[1]))
Call_check_email == Return("check_email", check_email(args[1]))
Call_check_quantity == Return("check_quantity", check_quantity(args[1], args[2]))
Call_check_price == Return("check_price", check_price(args[1], args[2], args[3]))
Call_check_age == Return("check_age", check_age(args[1], args[2], args[3]))
Call_clean_name == Return("clean_name", clean_name(args[1]))
Call_clean_email == Return("clean_email", clean_email(args[1]))
Call_clean_product_name == Return("clean_product_name", clean_product_name(args[1]))
Call_standardize_name == Return("standardize_name", standardize_name(args[1]))
Call_calculate_total ==
    /\ call = "calculate_total"
    /\ \E o \in calculate_total(args[1], args[2]) : Finish("calculate_total", o)
Call_calculate_tax ==
    /\ call = "calculate_tax"
    /\ \E v \in calculate_tax(args[1]) : Return("calculate_tax", v)
Call_get_order_category ==
    Return("get_order_category", get_order_category(args[1]))
Call_order_category ==
    /\ call = "order_category"
    /\ \E o \in order_category(args[1], args[2]) : Finish("order_category", o)
Call_convert_currency ==
    /\ call = "convert_currency"
    /\ \E o \in convert_currency(args[1], args[2]) : Finish("convert_currency", o)

Call_check_data_completeness ==
    /\ call = "check_data_completeness"
    /\ ReturnLeaving("check_data_completeness",
                     check_data_completeness(args[1], args[2]))
Call_validate_data_types ==
    /\ call = "validate_data_types"
    /\ ReturnLeaving("validate_data_types", validate_data_types(args[1], args[2]))

Call_validate_email == Return("validate_email", validate_email(args[1]))
Call_validate_age == Return("validate_age", validate_age(args[1]))

Next ==
    \/ Call_check_order_id
    \/ Call_check_email
    \/ Call_check_quantity
    \/ Call_check_price
    \/ Call_check_age
    \/ Call_clean_name
    \/ Call_clean_email
    \/ Call_clean_product_name
    \/ Call_standardize_name
    \/ Call_calculate_total
    \/ Call_calculate_tax
    \/ Call_get_order_category
    \/ Call_order_category
    \/ Call_convert_currency
    \/ Call_check_data_completeness
    \/ Call_validate_data_types
    \/ Call_validate_email
    \/ Call_validate_age

Spec == Init /\ [][Next]_vars

---------------------------------------------------------------------------
(* Calls one after the other, as the tests make them: up to MaxCalls calls  *)
(* of the library's functions, each with arguments of the tests' kind.     *)
(* The amounts are ones whose product has a single nearest 2-decimal       *)
(* value, so that each of these calls has one possible result.             *)

John == Str(<<"J">>)
Functions ==
    {"check_order_id", "check_email", "check_quantity", "check_price",
     "check_age", "clean_name", "clean_email", "clean_product_name",
     "standardize_name", "calculate_total", "calculate_tax",
     "get_order_category", "order_category", "convert_currency",
     "check_data_completeness", "validate_data_types",
     "validate_email", "validate_age"}

SampleArgs(f) ==
    CASE f = "check_order_id" -> {<<Str(<<"O", "R", "D", "-">>)>>, <<None>>}
      [] f = "check_email" ->
            {<<Str(<<"a", "@", "a", ".", "a">>)>>, <<Str(<<>>)>>}
      [] f = "check_quantity" -> {<<Num(2), 3>>, <<None, 3>>}
      [] f = "check_price" -> {<<Num(2), 1, 3>>}
      [] f = "check_age" -> {<<Num(2), 1, 3>>}
      [] f = "clean_name" -> {<<Str(<<" ", "a">>)>>, <<Str(<<"U+0130">>)>>}
      [] f = "clean_email" -> {<<Str(<<"A", " ">>)>>}
      [] f = "clean_product_name" -> {<<Str(<<"a", "-", "a">>)>>}
      [] f = "standardize_name" -> {<<Str(<<"a", " ", "A">>)>>}
      [] f = "calculate_total" ->
            {<<Num(2), Num(999990)>>, <<None, Num(999990)>>}
      [] f = "calculate_tax" -> {<<1999980>>}
      [] f = "get_order_category" -> {<<1999980>>, <<0>>}
      [] f = "order_category" -> {<<Num(-1), Num(-299990)>>}
      [] f = "convert_currency" -> {<<100 * Mills, 15>>, <<100 * Mills, -10>>}
      [] f = "check_data_completeness" ->
            {<<[name |-> John, email |-> John, age |-> Int_(30)],
               <<"name", "email", "age">>>>,
             <<[name |-> John, email |-> Str(<<>>), age |-> Int_(30)],
               <<"name", "email", "age">>>>}
      [] f = "validate_data_types" ->
            {<<[name |-> John, age |-> Int_(30), email |-> Float(5)],
               <<<<"name", "str">>, <<"age", "int">>, <<"email", "float">>>>>>,
             <<[name |-> John, age |-> John, email |-> Float(5)],
               <<<<"name", "str">>, <<"age", "int">>, <<"email", "float">>>>>>}

      [] f = "validate_email" -> {<<<<"a", "@", "a", ".", "a">>>>}
      [] f = "validate_age" -> {<<25>>}

InitCalls == \E f \in Functions : Ready(f, SampleArgs(f))

\* the next call of a test: any function, any of the arguments
CallAgain ==
    /\ pc \in {"done", "raised"}
    /\ Len(history) < MaxCalls
    /\ \E f \in Functions :
          /\ call' = f
          /\ args' \in SampleArgs(f)
    /\ pc' = "ready"
    /\ result' = None
    /\ UNCHANGED <<history, etl>>

NextCalls ==
    \/ Next
    \/ CallAgain

SpecCalls == InitCalls /\ [][NextCalls]_vars

---------------------------------------------------------------------------
(* Properties of the validators *)

Done(f) == pc = "done" /\ call = f

Present(v) == v.tag # "None"

\* the literal text a message starts with
Text(message) == message[1]

\* C1: check_quantity, check_price and check_age test in the stated order and
\* return on the first failing test, under every rule configuration: an
\* absent value yields (False, the 'missing' message); a present value that
\* fails the lower test yields the lower-bound message, also when it fails
\* the upper test as well.
C1_FirstFailingCheckWins ==
    /\ Done("check_quantity") =>
         /\ ~Present(args[1]) => result = <<FALSE, <<"Quantity is missing">>>>
         /\ (Present(args[1]) /\ args[1].val <= 0) =>
                result = <<FALSE, <<"Quantity must be positive">>>>
    /\ Done("check_price") =>
         /\ ~Present(args[1]) => result = <<FALSE, <<"Price is missing">>>>
         /\ (Present(args[1]) /\ args[1].val < args[2]) =>
                result = <<FALSE, <<"Price too low (min: $", args[2], ")">>>>
    /\ Done("check_age") =>
         /\ ~Present(args[1]) => result = <<FALSE, <<"Age is missing">>>>
         /\ (Present(args[1]) /\ args[1].val < args[2]) =>
                result = <<FALSE, <<"Customer too young (min: ", args[2], ")">>>>

\* an age below min_age and above max_age (min_age > max_age) was checked
C1_Witness ==
    /\ Done("check_age")
    /\ Present(args[1])
    /\ args[1].val < args[2]
    /\ args[1].val > args[3]
    /\ Text(result[2]) = "Customer too young (min: "

\* C2: check_quantity is valid exactly when the quantity is present and
\* 0 < quantity <= max_allowed; a quantity <= 0 gets the 'must be positive'
\* message and a positive quantity > max_allowed the 'too high' message.
C2_QuantityContract ==
    Done("check_quantity") =>
        LET q == args[1]
            max_allowed == args[2]
        IN  /\ result[1] <=> (Present(q) /\ 0 < q.val /\ q.val <= max_allowed)
            /\ (Present(q) /\ q.val <= 0) =>
                   Text(result[2]) = "Quantity must be positive"
            /\ (Present(q) /\ q.val > 0 /\ q.val > max_allowed) =>
                   result[2] = <<"Quantity too high (max: ", max_allowed, ")">>

\* quantity = max_allowed was checked and found valid
C2_Witness ==
    /\ Done("check_quantity")
    /\ Present(args[1])
    /\ args[1].val = args[2]
    /\ args[2] > 0
    /\ result = <<TRUE, Valid>>

\* C3: check_price is valid exactly when the price is present and
\* min_price <= price <= max_price; a price < min_price gets the 'too low'
\* message and a price >= min_price that is > max_price the 'too high' message.
C3_PriceContract ==
    Done("check_price") =>
        LET price == args[1]
            min_price == args[2]
            max_price == args[3]
        IN  /\ result[1] <=>
                   (Present(price) /\ min_price <= price.val /\ price.val <= max_price)
            /\ (Present(price) /\ price.val < min_price) =>
                   result[2] = <<"Price too low (min: $", min_price, ")">>
            /\ (Present(price) /\ price.val >= min_price /\ price.val > max_price) =>
                   result[2] = <<"Price too high (max: $", max_price, ")">>

\* price = min_price < max_price was checked and found valid
C3_Witness ==
    /\ Done("check_price")
    /\ Present(args[1])
    /\ args[1].val = args[2]
    /\ args[2] < args[3]
    /\ result = <<TRUE, Valid>>

\* C4: check_age is valid exactly when the age is present and
\* min_age <= age <= max_age; an absent age gets the 'missing' message, an
\* age < min_age the 'too young' message and an age >= min_age that is
\* > max_age the 'unrealistic' message.
C4_AgeContract ==
    Done("check_age") =>
        LET age == args[1]
            min_age == args[2]
            max_age == args[3]
        IN  /\ result[1] <=> (Present(age) /\ min_age <= age.val /\ age.val <= max_age)
            /\ ~Present(age) => result[2] = <<"Age is missing">>
            /\ (Present(age) /\ age.val < min_age) =>
                   result[2] = <<"Customer too young (min: ", min_age, ")">>
            /\ (Present(age) /\ age.val >= min_age /\ age.val > max_age) =>
                   result[2] = <<"Age unrealistic (max: ", max_age, ")">>

\* age = max_age > min_age was checked and found valid
C4_Witness ==
    /\ Done("check_age")
    /\ Present(args[1])
    /\ args[1].val = args[3]
    /\ args[2] < args[3]
    /\ result = <<TRUE, Valid>>

HasOrdPrefix(s) ==
    /\ Len(s) >= 4
    /\ s[1] = "O"
    /\ s[2] = "R"
    /\ s[3] = "D"
    /\ s[4] = "-"

IsDigit(c) == c \in {"0", "1", "2", "3", "4", "5", "6", "7", "8", "9"}

\* ORD-YYYY-NNN: the prefix, four digits, a hyphen, three digits
HasOrdShape(s) ==
    /\ Len(s) = 12
    /\ HasOrdPrefix(s)
    /\ \A i \in 5..8 : IsDigit(s[i])
    /\ s[9] = "-"
    /\ \A i \in 10..12 : IsDigit(s[i])

C6_OrderIdShape ==
    (Done("check_order_id") /\ result[1]) => HasOrdShape(args[1].val)

\* C7: check_email returns (False, "Email is empty") for an empty or absent
\* email, (False, "Email must have @ and .") for a non-empty email lacking
\* '@' or '.', and (True, "Valid") exactly when a non-empty email holds both.
C7_EmailContract ==
    Done("check_email") =>
        LET email == args[1]
            has(c) == \E i \in 1..Len(email.val) : email.val[i] = c
        IN  IF ~Present(email) \/ email.val = <<>>
            THEN result = <<FALSE, <<"Email is empty">>>>
            ELSE /\ (~has("@") \/ ~has(".")) =>
                        result = <<FALSE, <<"Email must have @ and .">>>>
                 /\ (has("@") /\ has(".")) <=> result = <<TRUE, <<"Valid">>>>

\* an email with an '@' and no '.' was checked and rejected
C7_Witness ==
    /\ Done("check_email")
    /\ Present(args[1])
    /\ \E i \in 1..Len(args[1].val) : args[1].val[i] = "@"
    /\ \A i \in 1..Len(args[1].val) : args[1].val[i] # "."
    /\ result[1] = FALSE

Validators ==
    {"check_order_id", "check_email", "check_quantity", "check_price", "check_age"}

\* the literal texts a failing validator's message starts with
Reasons ==
    {"Order ID is empty", "Order ID must start with ORD-",
     "Email is empty", "Email must have @ and .",
     "Quantity is missing", "Quantity must be positive", "Quantity too high (max: ",
     "Price is missing", "Price too low (min: $", "Price too high (max: $",
     "Age is missing", "Customer too young (min: ", "Age unrealistic (max: "}

\* C8: every validator returns a pair (is_valid, message) whose message is
\* the literal "Valid" if and only if is_valid is True; a failure carries one
\* reason, different from "Valid".
C8_ValidIffMessageValid ==
    (pc = "done" /\ call \in Validators) =>
        /\ Len(result) = 2
        /\ result[1] \in BOOLEAN
        /\ result[1] <=> (result[2] = <<"Valid">>)
        /\ ~result[1] => Text(result[2]) \in Reasons

\* a price above max_price was rejected with its reason
C8_Witness ==
    /\ Done("check_price")
    /\ result[1] = FALSE
    /\ Text(result[2]) = "Price too high (max: $"

---------------------------------------------------------------------------
(* Properties of the cleaners *)

\* C9: clean_name, clean_email and clean_product_name are idempotent:
\* cleaning the cleaned value again returns it unchanged, for every string
\* and for absent input.
C9_CleanersIdempotent ==
    /\ Done("clean_name") => clean_name(Str(result)) = result
    /\ Done("clean_email") => clean_email(Str(result)) = result
    /\ Done("clean_product_name") => clean_product_name(Str(result)) = result

\* t has neither leading nor trailing whitespace
NoOuterSpace(t) == t = <<>> \/ (~IsSpace(t[1]) /\ ~IsSpace(t[Len(t)]))

\* s without its surrounding whitespace: what is left of s after dropping a
\* leading and b trailing whitespace code points, when nothing more can be
\* dropped
TrimsOf(s) ==
    {t \in {SubSeq(s, ab[1] + 1, Len(s) - ab[2]) :
              ab \in {x \in (0..Len(s)) \X (0..Len(s)) :
                         /\ x[1] + x[2] <= Len(s)
                         /\ \A i \in 1..x[1] : IsSpace(s[i])
                         /\ \A i \in (Len(s) - x[2] + 1)..Len(s) : IsSpace(s[i])}} :
        NoOuterSpace(t)}

\* t with every word title-cased: the code point that begins a word (a run of
\* cased code points) in its title case, every other in its lower case
WordsTitleCased(t) ==
    Flatten([i \in 1..Len(t) |->
        IF i = 1 \/ ~IsCased(t[i - 1]) THEN TitleOf(t[i]) ELSE LowerOf(t[i])])

\* t with every code point in its lower case
LowerCased(t) == Flatten([i \in 1..Len(t) |-> LowerOf(t[i])])

TitleCleaners == {"clean_name", "clean_product_name", "standardize_name"}

\* C10: clean_name, clean_product_name and standardize_name return "" for
\* empty, absent and whitespace-only input and otherwise the input without
\* its surrounding whitespace, every word title-cased; clean_email returns ""
\* for empty or absent input and otherwise the input without its surrounding
\* whitespace, lower-cased; no result has leading or trailing whitespace.
C10_CleanersTrimAndCase ==
    (pc = "done" /\ call \in TitleCleaners \cup {"clean_email"}) =>
        LET x == args[1]
        IN  /\ NoOuterSpace(result)
            /\ IF ~Present(x) \/ x.val = <<>>
               THEN result = <<>>
               ELSE \E t \in TrimsOf(x.val) :
                       result = IF call = "clean_email"
                                THEN LowerCased(t)
                                ELSE WordsTitleCased(t)
            /\ (call \in TitleCleaners /\ Present(x)
                  /\ \A i \in 1..Len(x.val) : IsSpace(x.val[i])) => result = <<>>

\* " AA a" was cleaned: the leading space removed, both words title-cased
C10_Witness ==
    /\ Done("clean_name")
    /\ args[1] = Str(<<" ", "A", "A", " ", "a">>)
    /\ result = <<"A", "a", " ", "A">>

---------------------------------------------------------------------------
(* Properties of the derived computations *)

\* the call has ended, by returning or by raising
Ended(f) == pc # "ready" /\ call = f

\* r is n/d thousandths rounded to 2 decimals: a multiple of 10 thousandths
\* no further than half of 10 thousandths from n/d
IsRoundedTo2(r, n, d) ==
    /\ r % 10 = 0
    /\ 2 * (r * d - n) <= 10 * d
    /\ 2 * (n - r * d) <= 10 * d

\* C11: calculate_total returns 0.0 when quantity or price (or both) is
\* absent, and otherwise quantity * price rounded to 2 decimal places; a
\* present quantity or price of 0 goes through the product like any other.
C11_TotalContract ==
    Ended("calculate_total") =>
        LET quantity == args[1]
            price == args[2]
        IN  /\ pc = "done"
            /\ (~Present(quantity) \/ ~Present(price)) => result = 0
            /\ (Present(quantity) /\ Present(price)) =>
                   IsRoundedTo2(result, quantity.val * price.val, 1)

\* calculate_total(2, 999.99) returned 1999.98
C11_Witness ==
    /\ Done("calculate_total")
    /\ args = <<Num(2), Num(999990)>>
    /\ result = 1999980

\* C12: calculate_tax returns total * 0.10 rounded to 2 decimal places, for
\* every total; the rate is fixed at 10%.
C12_TaxContract ==
    Done("calculate_tax") => IsRoundedTo2(result, args[1], 10)

\* calculate_tax(1999.98) returned 200.0 (199.998 rounded)
C12_Witness ==
    /\ Done("calculate_tax")
    /\ args = <<1999980>>
    /\ result = 200000

\* C13: get_order_category gives every total exactly one category: "HIGH"
\* iff total >= 1000, "MEDIUM" iff 500 <= total < 1000, "LOW" iff
\* 0 < total < 500, "INVALID" iff total <= 0.
C13_CategoryPartition ==
    Done("get_order_category") =>
        LET total == args[1]
        IN  /\ result \in {"HIGH", "MEDIUM", "LOW", "INVALID"}
            /\ result = "HIGH" <=> total >= 1000000
            /\ result = "MEDIUM" <=> (500000 <= total /\ total < 1000000)
            /\ result = "LOW" <=> (0 < total /\ total < 500000)
            /\ result = "INVALID" <=> total <= 0

\* a total of exactly 1000 was categorised HIGH
C13_Witness ==
    /\ Done("get_order_category")
    /\ args = <<1000000>>
    /\ result = "HIGH"

\* C14: an order with a negative quantity and a negative price is categorised
\* "INVALID": get_order_category(calculate_total(quantity, price)) is
\* "INVALID" for every quantity < 0 and price < 0.
C14_NegativeOrderInvalid ==
    (Ended("order_category")
        /\ Present(args[1]) /\ Present(args[2])
        /\ args[1].val < 0 /\ args[2].val < 0) =>
            (pc = "done" /\ result = "INVALID")

---------------------------------------------------------------------------
(* Properties of the data-quality checks *)

\* C15: check_data_completeness returns (all_present, missing_fields) where
\* missing_fields is exactly the required fields that are absent from the
\* record or present with a falsy value (empty string, zero, None), in the
\* order of required_fields, and all_present is True iff missing_fields is
\* empty; a field that is not required never appears in missing_fields.
C15_CompletenessContract ==
    Done("check_data_completeness") =>
        LET record == args[1]
            required_fields == args[2]
            IsMissing(f) ==
                \/ f \notin DOMAIN record
                \/ record[f] \in {None, Str(<<>>), Int_(0), Float(0), Num(0)}
            missing == SelectSeq(required_fields, IsMissing)
        IN  /\ result = <<missing = <<>>, missing>>
            /\ \A i \in 1..Len(result[2]) :
                  \E j \in 1..Len(required_fields) : result[2][i] = required_fields[j]

\* a record with name, an empty email and age, all three required, was
\* checked: (False, ["email"])
C15_Witness ==
    /\ Done("check_data_completeness")
    /\ args[1] = [name |-> Str(<<"J">>), email |-> Str(<<>>), age |-> Int_(30)]
    /\ args[2] = <<"name", "email", "age">>
    /\ result = <<FALSE, <<"email">>>>

\* C16: validate_data_types returns (all_match, type_errors) where
\* type_errors holds exactly one string, naming the field, for each field
\* present in both the record and field_types whose value is not of the
\* expected type, in the order of field_types; a field of field_types absent
\* from the record is skipped; all_match is True iff type_errors is empty.
C16_DataTypesContract ==
    Done("validate_data_types") =>
        LET record == args[1]
            field_types == args[2]
            IsWrong(item) ==
                /\ item[1] \in DOMAIN record
                /\ record[item[1]].tag # item[2]
            wrong == SelectSeq(field_types, IsWrong)
        IN  /\ result[1] <=> (result[2] = <<>>)
            /\ Len(result[2]) = Len(wrong)
            /\ \A i \in 1..Len(wrong) :
                  /\ result[2][i][1] = wrong[i][1]
                  /\ result[2][i] =
                        <<wrong[i][1], ": expected ", wrong[i][2], ", got ",
                          IF record[wrong[i][1]].tag = "None" THEN "NoneType"
                          ELSE record[wrong[i][1]].tag>>

\* {"age": "J"} was checked against {"name": str, "age": int}: the absent
\* name is skipped, age is reported
C16_Witness ==
    /\ Done("validate_data_types")
    /\ args[1] = [age |-> Str(<<"J">>)]
    /\ args[2] = <<<<"name", "str">>, <<"age", "int">>>>
    /\ result = <<FALSE, <<<<"age", ": expected ", "int", ", got ", "str">>>>>>

---------------------------------------------------------------------------
(* Errors and effects *)

FailSoft ==
    {"check_order_id", "check_email", "check_quantity", "check_price",
     "check_age", "clean_name", "clean_email", "clean_product_name",
     "calculate_total"}

---------------------------------------------------------------------------
(* Properties of the utility validators *)

\* C21: validate_age accepts every age from 0 to 150 inclusive and rejects
\* every age below 0 or above 150.
C21_AgeAcceptedUpTo150 ==
    Done("validate_age") => (result <=> (0 <= args[1] /\ args[1] <= 150))

\* C22: validate_email returns False for every string that has no '@', has
\* nothing after the '@' or has nothing before the '@'.
C22_EmailRejectsMalformed ==
    Done("validate_email") =>
        LET email == args[1]
            NoAt == \A i \in 1..Len(email) : email[i] # "@"
            NothingBefore == Len(email) > 0 /\ email[1] = "@"
            NothingAfter == Len(email) > 0 /\ email[Len(email)] = "@"
        IN  (NoAt \/ NothingBefore \/ NothingAfter) => result = FALSE

---------------------------------------------------------------------------
(* ProductInventoryETL: integration-testing-examples/retail_etl_example.py  *)
(*                                                                         *)
(* A behaviour is one call of load_to_database or process_inventory_update *)
(* on an ETL object whose db_connection may fail at any operation.  etl    *)
(* holds the position in the code (at), the locals, the value returned,    *)
(* and log, the operations performed on the outside world in order, each   *)
(* with its outcome: "ok" or the text of the exception it raised.          *)

Logged(op, product, outcome) ==
    [op |-> op, product |-> product, outcome |-> outcome]

\* what cursor.execute of the INSERT may raise
InsertErrors ==
    {"Deadlock found when trying to get lock; try restarting transaction",
     "Foreign key constraint fails: supplier_id doesn't exist in suppliers table",
     "Check constraint violation: quantity must be >= 0"}
\* what any operation of the connection may raise
ConnectionError_ == "Lost connection to server"

Suppliers == {"SUP001", "SUP999"}
Products == [quantity : {100, -5}, supplier_id : Suppliers]
ProductLists == SeqsUpTo(Products, MaxProducts)

\* rows of a supplier feed: stock_level is a string
RawProducts == [stock_level : {"100", "-5", "many"}, supplier_code : Suppliers]
RawLists == SeqsUpTo(RawProducts, MaxProducts)

\* int(s): the strings that are integer literals
int(s) ==
    CASE s = "100" -> Returned(100)
      [] s = "-5"  -> Returned(-5)
      [] OTHER     -> Raised("ValueError", <<"invalid literal for int()">>)

\* transform_product_data: the loop stops at the first row that raises
RECURSIVE transform_product_data_loop(_, _, _)
transform_product_data_loop(raw_products, i, transformed) ==
    IF i > Len(raw_products) THEN Returned(transformed)
    ELSE LET product == raw_products[i]
             quantity == int(product.stock_level)
         IN  IF quantity.kind = "raise" THEN quantity
             ELSE transform_product_data_loop(raw_products, i + 1,
                      Append(transformed,
                             [quantity    |-> quantity.value,
                              supplier_id |-> product.supplier_code]))

transform_product_data(raw_products) ==
    transform_product_data_loop(raw_products, 1, <<>>)

NewEtl(entry, at, products) ==
    [entry |-> entry, at |-> at, raw |-> <<>>, products |-> products,
     i |-> 1, attempt |-> 0, log |-> <<>>, value |-> None]

EtlStep(e) ==
    /\ etl' = e
    /\ UNCHANGED callvars

NoCall ==
    /\ pc = "idle"
    /\ call = "none"
    /\ args = <<>>
    /\ result = None
    /\ history = <<>>

InitLoad ==
    /\ NoCall
    /\ \/ \E products \in ProductLists :
             etl = NewEtl("load_to_database", "ltd_cursor", products)
       \/ etl = NewEtl("process_inventory_update", "piu_extract", <<>>)

\* raw_data = self.extract_supplier_data(supplier_file): open or json.load
\* raises, or the feed's list of products is returned
piu_extract ==
    /\ etl.at = "piu_extract"
    /\ \/ EtlStep([etl EXCEPT !.at = "piu_except",
                       !.log = Append(@, Logged("extract", 0, "No such file"))])
       \/ \E raw \in RawLists :
             EtlStep([etl EXCEPT !.at = "piu_transform", !.raw = raw,
                          !.log = Append(@, Logged("extract", 0, "ok"))])

\* transformed_data = self.transform_product_data(raw_data), then the call
\* of load_to_database
piu_transform ==
    /\ etl.at = "piu_transform"
    /\ LET o == transform_product_data(etl.raw)
       IN  IF o.kind = "raise"
           THEN EtlStep([etl EXCEPT !.at = "piu_except",
                             !.log = Append(@, Logged("transform", 0, o.exc))])
           ELSE EtlStep([etl EXCEPT !.at = "ltd_cursor", !.products = o.value,
                             !.log = Append(@, Logged("transform", 0, "ok"))])

\* except Exception of process_inventory_update: return False
piu_except ==
    /\ etl.at = "piu_except"
    /\ EtlStep([etl EXCEPT !.at = "returned", !.value = Bool(FALSE)])

\* cursor = self.db_connection.cursor()
ltd_cursor ==
    /\ etl.at = "ltd_cursor"
    /\ \E outcome \in {"ok", ConnectionError_} :
          EtlStep([etl EXCEPT
                      !.at = IF outcome = "ok" THEN "ltd_for" ELSE "ltd_except",
                      !.log = Append(@, Logged("cursor", 0, outcome))])

\* variant: the loop goes on to the next product when an INSERT raises
ltd_executed_skip(e, outcome) ==
    [e EXCEPT !.i = @ + 1,
              !.log = Append(@, Logged("INSERT", e.i, outcome))]

\* variant: the commit is made inside the loop, after each INSERT
ltd_executed_commit_each(e, outcome) ==
    [e EXCEPT !.at = IF outcome = "ok" THEN "ltd_for" ELSE "ltd_except",
              !.i = IF outcome = "ok" THEN @ + 1 ELSE @,
              !.log = IF outcome = "ok"
                      THEN @ \o <<Logged("INSERT", e.i, outcome),
                                  Logged("commit", 0, "ok")>>
                      ELSE Append(@, Logged("INSERT", e.i, outcome))]

\* the execute of the INSERT of product i has ended with outcome: the loop
\* goes on, or the exception leaves the loop for the except clause
ltd_executed(e, outcome) ==
    [e EXCEPT !.at = IF outcome = "ok" THEN "ltd_for" ELSE "ltd_except",
              !.i = IF outcome = "ok" THEN @ + 1 ELSE @,
              !.log = Append(@, Logged("INSERT", e.i, outcome))]

\* for product in products: cursor.execute(INSERT ..., product)
ltd_execute ==
    /\ etl.at = "ltd_for"
    /\ etl.i <= Len(etl.products)
    /\ \E outcome \in {"ok"} \cup InsertErrors :
          EtlStep(ltd_executed(etl, outcome))

\* self.db_connection.commit(); return True
ltd_commit ==
    /\ etl.at = "ltd_for"
    /\ etl.i > Len(etl.products)
    /\ \E outcome \in {"ok", ConnectionError_} :
          EtlStep([etl EXCEPT
                      !.at = IF outcome = "ok" THEN "returned" ELSE "ltd_except",
                      !.value = IF outcome = "ok" THEN Bool(TRUE) ELSE @,
                      !.log = Append(@, Logged("commit", 0, outcome))])

\* variant: process_inventory_update has no try around its steps
ltd_raised_uncaught(entry) == "raised"

\* where an exception leaving load_to_database goes: to the except clause
\* of process_inventory_update when that is the caller
ltd_raised(entry) ==
    IF entry = "process_inventory_update" THEN "piu_except" ELSE "raised"

\* except Exception: self.db_connection.rollback(); return False.  When
\* rollback raises, load_to_database raises
ltd_except ==
    /\ etl.at = "ltd_except"
    /\ \E outcome \in {"ok", ConnectionError_} :
          EtlStep([etl EXCEPT
                      !.at = IF outcome = "ok" THEN "returned"
                             ELSE ltd_raised(etl.entry),
                      !.value = IF outcome = "ok" THEN Bool(FALSE) ELSE @,
                      !.log = Append(@, Logged("rollback", 0, outcome))])

NextLoad ==
    \/ piu_extract
    \/ piu_transform
    \/ piu_except
    \/ ltd_cursor
    \/ ltd_execute
    \/ ltd_commit
    \/ ltd_except

SpecLoad == InitLoad /\ [][NextLoad]_vars

---------------------------------------------------------------------------
(* Properties of ProductInventoryETL *)

EtlEnded == etl.at \in {"returned", "raised"}

\* the positions in the log of the operations named op
LogAt(op) == {k \in 1..Len(etl.log) : etl.log[k].op = op}
FailedAt(op) == {k \in LogAt(op) : etl.log[k].outcome # "ok"}

\* C23 as stated: whenever cursor.execute raises for a product,
\* load_to_database returns False, rollback was called, commit was not, and
\* no INSERT was executed after the failing one.
C23_ExecuteFailureReturnsFalse ==
    (etl.at # "none" /\ etl.entry = "load_to_database" /\ EtlEnded
         /\ FailedAt("INSERT") # {})
      => /\ etl.at = "returned"
         /\ etl.value = Bool(FALSE)
         /\ LogAt("rollback") # {}
         /\ LogAt("commit") = {}
         /\ \A k \in FailedAt("INSERT") : \A j \in LogAt("INSERT") : j <= k

\* C23: once cursor.execute has raised for a product, the only operation
\* that follows is rollback (no commit, no other INSERT); the call ends
\* after rollback was called, returning False when rollback succeeded and
\* raising rollback's exception when it did not.
C23_ExecuteFailureRollsBack ==
    (etl.at # "none" /\ etl.entry = "load_to_database") =>
        /\ \A k \in FailedAt("INSERT") :
              /\ LogAt("commit") = {}
              /\ \A j \in (k + 1)..Len(etl.log) : etl.log[j].op = "rollback"
        /\ (EtlEnded /\ FailedAt("INSERT") # {}) =>
              /\ LogAt("rollback") # {}
              /\ etl.log[Len(etl.log)].op = "rollback"
              /\ IF etl.log[Len(etl.log)].outcome = "ok"
                 THEN etl.at = "returned" /\ etl.value = Bool(FALSE)
                 ELSE etl.at = "raised"

\* the INSERT of the first of two products raised, rollback succeeded and
\* load_to_database returned False
C23_Witness ==
    /\ etl.at = "returned"
    /\ etl.entry = "load_to_database"
    /\ Len(etl.products) = 2
    /\ FailedAt("INSERT") = {2}
    /\ etl.log[3] = Logged("rollback", 0, "ok")
    /\ etl.value = Bool(FALSE)

\* C24: when no database operation raises, load_to_database executes one
\* INSERT per product in list order, then commits once, never rolls back,
\* and returns True.
C24_SuccessCommitsOnce ==
    (etl.at # "none" /\ etl.entry = "load_to_database" /\ EtlEnded
         /\ \A k \in 1..Len(etl.log) : etl.log[k].outcome = "ok")
      => /\ etl.log = <<Logged("cursor", 0, "ok")>>
                      \o [i \in 1..Len(etl.products) |-> Logged("INSERT", i, "ok")]
                      \o <<Logged("commit", 0, "ok")>>
         /\ etl.at = "returned"
         /\ etl.value = Bool(TRUE)

\* two products were loaded without any failure
C24_Witness ==
    /\ etl.at = "returned"
    /\ etl.entry = "load_to_database"
    /\ Len(etl.products) = 2
    /\ Len(etl.log) = 4
    /\ etl.value = Bool(TRUE)

\* C28: process_inventory_update runs extract, then transform, then load,
\* and never raises: when extraction or transformation raises, no database
\* operation is made and the result is False; when load_to_database raises
\* (rollback fails) the result is False; the result is True only if the load
\* committed.
C28_ProcessNeverRaises ==
    (etl.at # "none" /\ etl.entry = "process_inventory_update") =>
        LET log == etl.log
            DbOps == {"cursor", "INSERT", "commit", "rollback"}
        IN  /\ etl.at # "raised"
            /\ \A k \in 1..Len(log) :
                  /\ log[k].op = "extract" <=> k = 1
                  /\ log[k].op = "transform" <=> k = 2
                  /\ log[k].op \in DbOps <=> k >= 3
                  /\ k >= 2 => log[1].outcome = "ok"
                  /\ k >= 3 => log[2].outcome = "ok"
            /\ etl.at = "returned" =>
                  /\ (FailedAt("extract") # {} \/ FailedAt("transform") # {})
                        => (etl.value = Bool(FALSE) /\ \A k \in 1..Len(log) : log[k].op \notin DbOps)
                  /\ FailedAt("rollback") # {} => etl.value = Bool(FALSE)
                  /\ etl.value = Bool(TRUE) =>
                        log[Len(log)] = Logged("commit", 0, "ok")

\* load_to_database raised inside process_inventory_update (the INSERT and
\* then rollback failed) and process_inventory_update returned False
C28_Witness ==
    /\ etl.at = "returned"
    /\ etl.entry = "process_inventory_update"
    /\ FailedAt("INSERT") # {}
    /\ FailedAt("rollback") # {}
    /\ etl.value = Bool(FALSE)

---------------------------------------------------------------------------
(* ImprovedProductInventoryETL: retail_etl_example.py.  One call of         *)
(* load_to_database_improved; the log holds the operations made on the     *)
(* database: cursor, the SELECT of validate_supplier_exists, INSERT,       *)
(* commit, rollback.                                                       *)

max_retries == 3

\* the suppliers table
ExistingSuppliers == {"SUP001"}

\* "Deadlock" in str(e)
HasDeadlock(e) ==
    e \in {"Deadlock found when trying to get lock; try restarting transaction"}

\* variant: negative quantities are not looked at
negative_quantity_ignored(product) == FALSE

\* if product['quantity'] < 0
negative_quantity(product) == product.quantity < 0

\* cursor.fetchone()[0] > 0 of validate_supplier_exists
validate_supplier_exists(supplier_id) == supplier_id \in ExistingSuppliers

\* variant: an attempt is repeated after any error
should_retry_any(e, attempt) == attempt < max_retries - 1

\* if "Deadlock" in str(e) and attempt < max_retries - 1
should_retry(e, attempt) == HasDeadlock(e) /\ attempt < max_retries - 1

\* variant: an INSERT that may not be retried is given up and the loop goes
\* on to the next product
lti_executed_give_up(e, outcome) ==
    IF outcome = "ok" \/ ~should_retry(outcome, e.attempt)
    THEN [e EXCEPT !.at = "lti_for", !.i = @ + 1,
                   !.log = Append(@, Logged("INSERT", e.i, outcome))]
    ELSE [e EXCEPT !.attempt = @ + 1,
                   !.log = Append(@, Logged("INSERT", e.i, outcome))]

\* the execute of the INSERT of product i, attempt e.attempt, has ended:
\* break, continue with the next attempt, or raise to the outer except
lti_executed(e, outcome) ==
    IF outcome = "ok"
    THEN [e EXCEPT !.at = "lti_for", !.i = @ + 1,
                   !.log = Append(@, Logged("INSERT", e.i, outcome))]
    ELSE IF should_retry(outcome, e.attempt)
    THEN [e EXCEPT !.attempt = @ + 1,
                   !.log = Append(@, Logged("INSERT", e.i, outcome))]
    ELSE [e EXCEPT !.at = "lti_except",
                   !.log = Append(@, Logged("INSERT", e.i, outcome))]

InitImproved ==
    /\ NoCall
    /\ \E products \in ProductLists :
          etl = NewEtl("load_to_database_improved", "lti_cursor", products)

\* cursor = self.db_connection.cursor()
lti_cursor ==
    /\ etl.at = "lti_cursor"
    /\ \E outcome \in {"ok", ConnectionError_} :
          EtlStep([etl EXCEPT
                      !.at = IF outcome = "ok" THEN "lti_for" ELSE "lti_except",
                      !.log = Append(@, Logged("cursor", 0, outcome))])

\* if product['quantity'] < 0: ... continue
lti_skip_negative ==
    /\ etl.at = "lti_for"
    /\ etl.i <= Len(etl.products)
    /\ negative_quantity(etl.products[etl.i])
    /\ EtlStep([etl EXCEPT !.i = @ + 1])

\* if not self.validate_supplier_exists(product['supplier_id']): ... continue
\* The SELECT raises, or tells whether the supplier is in the table
lti_validate_supplier ==
    /\ etl.at = "lti_for"
    /\ etl.i <= Len(etl.products)
    /\ ~negative_quantity(etl.products[etl.i])
    /\ \/ EtlStep([etl EXCEPT
                      !.at = "lti_except",
                      !.log = Append(@, Logged("SELECT", etl.i, ConnectionError_))])
       \/ EtlStep([etl EXCEPT
                      !.at = IF validate_supplier_exists(etl.products[etl.i].supplier_id)
                             THEN "lti_insert" ELSE "lti_for",
                      !.i = IF validate_supplier_exists(etl.products[etl.i].supplier_id)
                            THEN @ ELSE @ + 1,
                      !.attempt = 0,
                      !.log = Append(@, Logged("SELECT", etl.i, "ok"))])

\* for attempt in range(max_retries): try: cursor.execute(INSERT ...)
lti_execute ==
    /\ etl.at = "lti_insert"
    /\ etl.attempt < max_retries
    /\ \E outcome \in {"ok"} \cup InsertErrors :
          EtlStep(lti_executed(etl, outcome))

\* self.db_connection.commit(); return True
lti_commit ==
    /\ etl.at = "lti_for"
    /\ etl.i > Len(etl.products)
    /\ \E outcome \in {"ok", ConnectionError_} :
          EtlStep([etl EXCEPT
                      !.at = IF outcome = "ok" THEN "returned" ELSE "lti_except",
                      !.value = IF outcome = "ok" THEN Bool(TRUE) ELSE @,
                      !.log = Append(@, Logged("commit", 0, outcome))])

\* except Exception: self.db_connection.rollback(); return False
lti_except ==
    /\ etl.at = "lti_except"
    /\ \E outcome \in {"ok", ConnectionError_} :
          EtlStep([etl EXCEPT
                      !.at = IF outcome = "ok" THEN "returned" ELSE "raised",
                      !.value = IF outcome = "ok" THEN Bool(FALSE) ELSE @,
                      !.log = Append(@, Logged("rollback", 0, outcome))])

NextImproved ==
    \/ lti_cursor
    \/ lti_skip_negative
    \/ lti_validate_supplier
    \/ lti_execute
    \/ lti_commit
    \/ lti_except

SpecImproved == InitImproved /\ [][NextImproved]_vars

\* the call runs on its own thread of control: a step that can be taken is
\* taken
FairSpecImproved == SpecImproved /\ WF_vars(NextImproved)

---------------------------------------------------------------------------
(* Properties of ImprovedProductInventoryETL *)

Improved == etl.at # "none" /\ etl.entry = "load_to_database_improved"

\* the positions in the log of the INSERT attempts for product p
InsertsOf(p) == {k \in LogAt("INSERT") : etl.log[k].product = p}

\* the number of the attempt made at position k of the log: 1, 2, ...
AttemptAt(k) ==
    Cardinality({j \in InsertsOf(etl.log[k].product) : j <= k})

\* after position k of the log the load is aborted: only rollback follows
AbortedAt(k) == \A j \in (k + 1)..Len(etl.log) : etl.log[j].op = "rollback"

C25_RetrySafe ==
    Improved =>
        \A p \in 1..Len(etl.products) :
            /\ Cardinality(InsertsOf(p)) <= 3
            /\ \A k \in InsertsOf(p) :
                  LET outcome == etl.log[k].outcome
                      Deadlock == outcome =
                          "Deadlock found when trying to get lock; try restarting transaction"
                  IN  /\ AttemptAt(k) > 1 =>
                            /\ etl.log[k - 1].op = "INSERT"
                            /\ etl.log[k - 1].product = p
                            /\ etl.log[k - 1].outcome =
                                  "Deadlock found when trying to get lock; try restarting transaction"
                      /\ (outcome # "ok" /\ ~Deadlock) => AbortedAt(k)
                      /\ (Deadlock /\ AttemptAt(k) = 3) => AbortedAt(k)
                      /\ (Deadlock /\ AttemptAt(k) < 3 /\ k < Len(etl.log)) =>
                            /\ etl.log[k + 1].op = "INSERT"
                            /\ etl.log[k + 1].product = p
                      /\ outcome = "ok" => \A j \in InsertsOf(p) : j <= k

\* C25: for each product the INSERT is attempted at most 3 times; a further
\* attempt follows only an error whose text contains "Deadlock", on attempt
\* 1 or 2; any other error aborts the load at once, and so does a deadlock
\* on the third attempt; a product whose INSERT succeeded is not executed
\* again; the call always ends.
C25_RetryBounded == []C25_RetrySafe /\ <>EtlEnded

\* a product was inserted on the third attempt after two deadlocks, and the
\* load committed
C25_Witness ==
    /\ Improved
    /\ etl.at = "returned"
    /\ etl.value = Bool(TRUE)
    /\ \E p \in 1..Len(etl.products) :
          /\ Cardinality(InsertsOf(p)) = 3
          /\ \E k \in InsertsOf(p) : etl.log[k].outcome = "ok"

\* the product may not be inserted: negative quantity or unknown supplier
Skippable(product) ==
    product.quantity < 0 \/ product.supplier_id \notin {"SUP001"}

\* C26: no INSERT is executed for a product with quantity < 0 or whose
\* supplier the lookup reports as not existing; every INSERT follows a
\* successful lookup for its product; such products are skipped without
\* failing the load, so a batch made only of skipped products commits and
\* returns True when no operation raises; no lookup is made for a product
\* with negative quantity.
C26_ValidatesBeforeInsert ==
    Improved =>
        /\ \A k \in LogAt("INSERT") :
              /\ ~Skippable(etl.products[etl.log[k].product])
              /\ \E j \in LogAt("SELECT") :
                    /\ j < k
                    /\ etl.log[j] = Logged("SELECT", etl.log[k].product, "ok")
        /\ \A k \in LogAt("SELECT") :
              etl.products[etl.log[k].product].quantity >= 0
        /\ (EtlEnded
              /\ (\A p \in 1..Len(etl.products) : Skippable(etl.products[p]))
              /\ (\A k \in 1..Len(etl.log) : etl.log[k].outcome = "ok"))
             => /\ etl.at = "returned"
                /\ etl.value = Bool(TRUE)
                /\ etl.log[Len(etl.log)] = Logged("commit", 0, "ok")

\* a batch of a product with negative quantity and a product of an unknown
\* supplier was loaded: one lookup, no INSERT, commit, True
C26_Witness ==
    /\ Improved
    /\ etl.at = "returned"
    /\ etl.value = Bool(TRUE)
    /\ etl.products = <<[quantity |-> -5, supplier_id |-> "SUP001"],
                        [quantity |-> 100, supplier_id |-> "SUP999"]>>
    /\ etl.log = <<Logged("cursor", 0, "ok"), Logged("SELECT", 2, "ok"),
                   Logged("commit", 0, "ok")>>

\* C27: under any pattern of failures, commit is called at most once and
\* only after every product was skipped or successfully inserted; rollback
\* is called only after some operation raised; the call returns True
\* exactly when commit completed without raising, and returns False only
\* after rollback was called; no INSERT follows commit or rollback.
C27_CommitAndRollbackDiscipline ==
    Improved =>
        /\ Cardinality(LogAt("commit")) <= 1
        /\ \A k \in LogAt("commit") :
              \A p \in 1..Len(etl.products) :
                  \/ etl.products[p].quantity < 0
                  \/ /\ InsertsOf(p) = {}
                     /\ \E j \in LogAt("SELECT") :
                           /\ j < k
                           /\ etl.log[j] = Logged("SELECT", p, "ok")
                     /\ etl.products[p].supplier_id \notin {"SUP001"}
                  \/ \E j \in InsertsOf(p) : j < k /\ etl.log[j].outcome = "ok"
        /\ \A k \in LogAt("rollback") :
              \E j \in 1..(k - 1) : etl.log[j].outcome # "ok"
        /\ (etl.at = "returned" /\ etl.value = Bool(TRUE))
              <=> (\E k \in LogAt("commit") : etl.log[k].outcome = "ok")
        /\ (etl.at = "returned" /\ etl.value = Bool(FALSE)) => LogAt("rollback") # {}
        /\ \A k \in LogAt("commit") \cup LogAt("rollback") :
              \A j \in (k + 1)..Len(etl.log) : etl.log[j].op # "INSERT"

\* a product was inserted, commit raised, rollback succeeded and the call
\* returned False
C27_Witness ==
    /\ Improved
    /\ etl.at = "returned"
    /\ etl.value = Bool(FALSE)
    /\ LogAt("INSERT") # {}
    /\ FailedAt("INSERT") = {}
    /\ FailedAt("commit") # {}

---------------------------------------------------------------------------
(* run_complete_e2e_pipeline: integration-testing-examples/                 *)
(* end_to_end_testing.py.  One run of the pipeline.  Every step that works *)
(* on the data (Spark, the fake-data generator) succeeds or fails; the     *)
(* warehouse and analytics connections are the MagicMock objects the       *)
(* pipeline creates, whose methods return None.  log holds the steps       *)
(* called and the methods called on the connections, in order.             *)

\* pipeline_results as first assigned
NewResults ==
    [extraction_success |-> FALSE, transformation_success |-> FALSE,
     loading_success |-> FALSE, total_customers |-> 0,
     total_transactions |-> 0, analytics_records |-> 0]

NewPipeline(num_customers, num_transactions) ==
    [entry |-> "run_complete_e2e_pipeline", at |-> "extract_customers",
     num_customers |-> num_customers, num_transactions |-> num_transactions,
     pipeline_results |-> NewResults,
     customer_load_success |-> FALSE, transaction_load_success |-> FALSE,
     analytics_load_success |-> FALSE,
     log |-> <<>>, value |-> None]

InitPipeline ==
    /\ NoCall
    /\ \E num_customers, num_transactions \in 1..MaxRows :
          etl = NewPipeline(num_customers, num_transactions)

\* a step returning (data, success): on failure the pipeline raises into its
\* except clause
PipelineStep(step, next) ==
    /\ \E success \in BOOLEAN :
          EtlStep([etl EXCEPT
                      !.at = IF success THEN next ELSE "except",
                      !.log = Append(@, Logged(step, "data",
                                               IF success THEN "ok" ELSE "failed"))])

e2e_extract_customers ==
    /\ etl.at = "extract_customers"
    /\ PipelineStep("extract_customer_data_from_source", "extract_transactions")

\* customer_ids = [...collect()], then the extraction of the transactions
e2e_extract_transactions ==
    /\ etl.at = "extract_transactions"
    /\ PipelineStep("extract_transaction_data_from_source", "extracted")

\* pipeline_results["extraction_success"] = True and the two counts; a count
\* is a Spark action and may raise
e2e_extracted ==
    /\ etl.at = "extracted"
    /\ \/ EtlStep([etl EXCEPT
                      !.at = "transform_customers",
                      !.pipeline_results.extraction_success = TRUE,
                      !.pipeline_results.total_customers = etl.num_customers,
                      !.pipeline_results.total_transactions = etl.num_transactions])
       \/ EtlStep([etl EXCEPT
                      !.at = "except",
                      !.pipeline_results.extraction_success = TRUE])

e2e_transform_customers ==
    /\ etl.at = "transform_customers"
    /\ PipelineStep("transform_customer_data", "transform_transactions")

e2e_transform_transactions ==
    /\ etl.at = "transform_transactions"
    /\ PipelineStep("transform_transaction_data", "create_analytics")

e2e_create_analytics ==
    /\ etl.at = "create_analytics"
    /\ PipelineStep("create_customer_analytics", "transformed")

\* pipeline_results["transformation_success"] = True and the count of the
\* analytics records (at most one per customer)
e2e_transformed ==
    /\ etl.at = "transformed"
    /\ \/ \E analytics_records \in 0..etl.num_customers :
             EtlStep([etl EXCEPT
                         !.at = "load_customers",
                         !.pipeline_results.transformation_success = TRUE,
                         !.pipeline_results.analytics_records = analytics_records])
       \/ EtlStep([etl EXCEPT
                      !.at = "except",
                      !.pipeline_results.transformation_success = TRUE])

\* load_to_data_warehouse: the checks of the data raise, or the four calls
\* on the connection are made; the except clause calls rollback.  Returns
\* the calls made and the success flag
load_to_data_warehouse(table_name, data_ok) ==
    IF data_ok
    THEN [calls |-> <<Logged("create_table_if_not_exists", table_name, "ok"),
                      Logged("insert_batch", table_name, "ok"),
                      Logged("create_indexes", table_name, "ok"),
                      Logged("commit", table_name, "ok")>>,
          success |-> TRUE]
    ELSE [calls |-> <<Logged("rollback", table_name, "ok")>>, success |-> FALSE]

\* load_to_analytics_store: the count raises, or the three calls are made
load_to_analytics_store(data_ok) ==
    IF data_ok
    THEN [calls |-> <<Logged("prepare_analytics_tables", "analytics", "ok"),
                      Logged("load_customer_metrics", "analytics", "ok"),
                      Logged("refresh_dashboards", "analytics", "ok")>>,
          success |-> TRUE]
    ELSE [calls |-> <<>>, success |-> FALSE]

e2e_load_customers ==
    /\ etl.at = "load_customers"
    /\ \E data_ok \in BOOLEAN :
          LET load == load_to_data_warehouse("customers", data_ok)
          IN  EtlStep([etl EXCEPT !.at = "load_transactions",
                           !.customer_load_success = load.success,
                           !.log = @ \o load.calls])

e2e_load_transactions ==
    /\ etl.at = "load_transactions"
    /\ \E data_ok \in BOOLEAN :
          LET load == load_to_data_warehouse("transactions", data_ok)
          IN  EtlStep([etl EXCEPT !.at = "load_analytics",
                           !.transaction_load_success = load.success,
                           !.log = @ \o load.calls])

e2e_load_analytics ==
    /\ etl.at = "load_analytics"
    /\ \E data_ok \in BOOLEAN :
          LET load == load_to_analytics_store(data_ok)
          IN  EtlStep([etl EXCEPT !.at = "summary",
                           !.analytics_load_success = load.success,
                           !.log = @ \o load.calls])

\* variant: the loading counts as a success when any of the loads succeeded
loading_success_any(customer_load_success, transaction_load_success, analytics_load_success) ==
    customer_load_success \/ transaction_load_success \/ analytics_load_success

\* customer_load_success and transaction_load_success and analytics_load_success
loading_success(customer_load_success, transaction_load_success, analytics_load_success) ==
    customer_load_success /\ transaction_load_success /\ analytics_load_success

\* pipeline_results["loading_success"] = ...; return pipeline_results,
\* customer_analytics
e2e_summary ==
    /\ etl.at = "summary"
    /\ EtlStep([etl EXCEPT
                   !.at = "returned",
                   !.pipeline_results.loading_success =
                       loading_success(etl.customer_load_success,
                                       etl.transaction_load_success,
                                       etl.analytics_load_success),
                   !.value = Str(<<"customer_analytics">>)])

\* except Exception: return pipeline_results, None
e2e_except ==
    /\ etl.at = "except"
    /\ EtlStep([etl EXCEPT !.at = "returned"])

NextPipeline ==
    \/ e2e_extract_customers
    \/ e2e_extract_transactions
    \/ e2e_extracted
    \/ e2e_transform_customers
    \/ e2e_transform_transactions
    \/ e2e_create_analytics
    \/ e2e_transformed
    \/ e2e_load_customers
    \/ e2e_load_transactions
    \/ e2e_load_analytics
    \/ e2e_summary
    \/ e2e_except

SpecPipeline == InitPipeline /\ [][NextPipeline]_vars

---------------------------------------------------------------------------
(* Properties of run_complete_e2e_pipeline *)

PipelineSteps ==
    <<"extract_customer_data_from_source", "extract_transaction_data_from_source",
      "transform_customer_data", "transform_transaction_data",
      "create_customer_analytics">>

ConnectionCalls ==
    {"create_table_if_not_exists", "insert_batch", "create_indexes", "commit",
     "rollback", "prepare_analytics_tables", "load_customer_metrics",
     "refresh_dashboards"}

\* C29: transformation_success implies extraction_success and
\* loading_success implies transformation_success; the steps run in order,
\* and a failed extraction or transformation step is followed by no other
\* step and no call on the warehouse or analytics connection, and
\* (results, None) is returned; a failed load does not raise: the pipeline
\* returns the analytics data with loading_success False; loading_success
\* is True only if the two warehouse loads and the analytics load succeeded.
C29_PhaseOrdering ==
    (etl.at # "none" /\ etl.entry = "run_complete_e2e_pipeline") =>
        LET results == etl.pipeline_results
            log == etl.log
            Failed == {k \in 1..Len(log) : log[k].outcome = "failed"}
            Called(op, table) == \E k \in 1..Len(log) : log[k] = Logged(op, table, "ok")
        IN  /\ results.transformation_success => results.extraction_success
            /\ results.loading_success => results.transformation_success
            /\ etl.at # "raised"
            /\ \A k \in 1..Len(log) :
                  IF k <= Len(PipelineSteps)
                  THEN log[k].op = PipelineSteps[k]
                  ELSE log[k].op \in ConnectionCalls
            /\ \A k \in Failed :
                  /\ k = Len(log)
                  /\ ~results.loading_success
                  /\ k <= 2 => ~results.extraction_success
                  /\ ~results.transformation_success
                  /\ etl.at = "returned" => etl.value = None
            /\ (etl.at = "returned" /\ results.transformation_success
                   /\ Len(log) > Len(PipelineSteps)) =>
                  /\ etl.value = Str(<<"customer_analytics">>)
                  /\ (Called("rollback", "customers")
                        \/ Called("rollback", "transactions")
                        \/ ~Called("refresh_dashboards", "analytics"))
                       => ~results.loading_success
            /\ results.loading_success =>
                  /\ etl.customer_load_success
                  /\ etl.transaction_load_success
                  /\ etl.analytics_load_success
                  /\ Called("commit", "customers")
                  /\ Called("commit", "transactions")
                  /\ Called("refresh_dashboards", "analytics")
                  /\ ~Called("rollback", "customers")
                  /\ ~Called("rollback", "transactions")

\* the load of the customers failed and the other two loads succeeded: the
\* pipeline returned the analytics data with loading_success False
C29_Witness ==
    /\ etl.at = "returned"
    /\ etl.entry = "run_complete_e2e_pipeline"
    /\ etl.value = Str(<<"customer_analytics">>)
    /\ etl.pipeline_results.transformation_success
    /\ ~etl.pipeline_results.loading_success
    /\ ~etl.customer_load_success
    /\ etl.transaction_load_success
    /\ etl.analytics_load_success

---------------------------------------------------------------------------
(* Order of the categories *)

\* INVALID < LOW < MEDIUM < HIGH
CategoryRank(category) ==
    CASE category = "INVALID" -> 0
      [] category = "LOW"     -> 1
      [] category = "MEDIUM"  -> 2
      [] category = "HIGH"    -> 3

\* C30: get_order_category is monotone in the total: for totals a <= b the
\* category of a is not above the category of b; hence, for a fixed positive
\* price, a larger positive quantity never has a lower category of
\* calculate_total(quantity, price).
C30_CategoryMonotone ==
    /\ Done("get_order_category") =>
          \A b \in Amounts :
              args[1] <= b =>
                  CategoryRank(result) <= CategoryRank(get_order_category(b))
    /\ (Done("order_category") /\ Present(args[1]) /\ Present(args[2])
            /\ args[1].val > 0 /\ args[2].val > 0) =>
          \A quantity \in NumRange :
              quantity > args[1].val =>
                  \A o \in order_category(Num(quantity), args[2]) :
                      /\ o.kind = "return"
                      /\ CategoryRank(result) <= CategoryRank(o.value)

\* quantity 1 at a price just under 500 was categorised LOW (and quantity 3
\* at that price is HIGH)
C30_Witness ==
    /\ Done("order_category")
    /\ args = <<Num(1), Num(499990)>>
    /\ result = "LOW"
    /\ order_category(Num(3), Num(499990)) = {Returned("HIGH")}

====
